---------------------------- MODULE Spec2Model ----------------------------
(***************************************************************************)
(* A model of the adaptive poker decision engine SharkAI                   *)
(* (src/texas_holdem/ai/shark_ai.py): the opponent model with its          *)
(* adaptation rule, the pure calculators and the decision procedure; and   *)
(* of the save slots of SaveManager (src/texas_holdem/utils/               *)
(* save_manager.py).                                                       *)
(*                                                                         *)
(* Numbers.  Python floats are modelled by exact rationals:                *)
(*   - a tendency score is a reduced fraction <<n, d>>, d > 0;             *)
(*   - probabilities of the strategy configuration are in hundredths       *)
(*     (bluff_freq 0.15 is 15), af_factor is in tenths (2.5 is 25);        *)
(*   - comparisons of products are done by cross multiplication.          *)
(***************************************************************************)
EXTENDS Integers, Sequences, FiniteSets, TLC

VARIABLES
    opponent_data,      \* self.opponent_data: name -> record of counters and scores
    adaptation_active,  \* self.adaptation_active
    hands_observed,     \* self.hands_observed
    current_config,     \* self.current_config
    current_street,     \* self.current_street
    effective_stack,    \* self.effective_stack, a fraction
    last_call,          \* the most recent call made on the engine (call log)
    request,            \* the arguments of the call being made (decide, calculators)
    result,             \* what that call returned
    action_is_str,      \* whether Action members compare equal to their names
    saves,              \* the files of SaveManager.SAVE_DIR: slot -> file
    save_log            \* per slot, the data of its latest successful save_game

engine == <<opponent_data, adaptation_active, hands_observed, current_config>>
disk == <<saves, save_log>>
desk == <<current_street, effective_stack, request, result, action_is_str, disk>>
vars == <<opponent_data, adaptation_active, hands_observed, current_config,
          current_street, effective_stack, last_call, request, result,
          action_is_str, saves, save_log>>

---------------------------------------------------------------------------
(* Bounds of the model. *)

\* observe calls accepted per session in the specification Spec
MaxObserved == 21
\* observe calls accepted per session in the specification SpecLog
MaxLogged == 5

---------------------------------------------------------------------------
(* Exact rationals. *)

RECURSIVE GCD(_, _)
GCD(a, b) == IF b = 0 THEN a ELSE GCD(b, a % b)

\* the fraction n/d (n >= 0, d > 0) in lowest terms
Frac(n, d) == LET g == GCD(n, d) IN <<n \div g, d \div g>>

\* a fraction x >= 0 left without its cap
Min1Uncapped(x) == x

\* min(1.0, x) for a fraction x >= 0
Min1(x) == IF x[1] > x[2] THEN <<1, 1>> ELSE x

FracAdd(x, y) == Frac(x[1] * y[2] + y[1] * x[2], x[2] * y[2])

Abs(n) == IF n < 0 THEN -n ELSE n

\* the rational n/d (d # 0) in lowest terms with a positive denominator
Rat(n, d) ==
    LET g == GCD(Abs(n), Abs(d))
    IN  IF d < 0 THEN <<(-n) \div g, (-d) \div g>> ELSE <<n \div g, d \div g>>

\* x < y, x <= y for rationals
RatLess(x, y) == x[1] * y[2] < y[1] * x[2]
RatLeq(x, y) == x[1] * y[2] <= y[1] * x[2]
RatMin(x, y) == IF RatLeq(x, y) THEN x ELSE y

Max(a, b) == IF a >= b THEN a ELSE b
Min(a, b) == IF a <= b THEN a ELSE b

---------------------------------------------------------------------------
(* SharkAI.__init__ *)

\* self.base_config; probabilities in hundredths, af_factor in tenths
base_config ==
    [ vpip_range       |-> <<12, 18>>,
      pfr_range        |-> <<10, 16>>,
      af_factor        |-> 25,
      bluff_freq       |-> 15,
      call_preflop     |-> 20,
      raise_preflop    |-> 25,
      bet_postflop     |-> 45,
      fold_to_raise    |-> 60,
      adaptation_start |-> 20,
      learning_rate    |-> 10 ]

\* the players handed to initialize_opponents
Human(n) == [name |-> n, is_ai |-> FALSE, ai_style |-> "LAG"]
Bot(n, style) == [name |-> n, is_ai |-> TRUE, ai_style |-> style]

\* the names observe is called with
Names == {"p1", "p2", "shark"}

\* the record initialize_opponents creates for a tracked player
NewRecord ==
    [ hands_observed      |-> 0,
      folds               |-> 0,
      calls               |-> 0,
      raises              |-> 0,
      bluffs_detected     |-> 0,
      bluff_opportunities |-> 0,
      fold_to_cbet        |-> 0,
      cbet_opportunities  |-> 0,
      showdown_wins       |-> 0,
      showdowns           |-> 0,
      fold_tendency       |-> <<1, 2>>,
      bluff_tendency      |-> <<1, 2>>,
      calling_tendency    |-> <<1, 2>> ]

\* the names initialize_opponents tracks: every player that is not a SHARK bot
Tracked(players) ==
    { players[i].name : i \in { j \in 1..Len(players) :
        ~players[j].is_ai \/ players[j].ai_style # "SHARK" } }

---------------------------------------------------------------------------
(* SharkAI._calculate_tendencies *)

\* the recomputation with the bluff and calling scores reset to 0 when
\* their rates are undefined
calculate_tendencies_resetting(data) ==
    LET hands == data.hands_observed IN
    IF hands < 3 THEN data
    ELSE
      [data EXCEPT
         !.fold_tendency = Min1(Frac(2 * data.folds, hands)),
         !.bluff_tendency = IF data.raises > 0
                            THEN Min1(Frac(3 * data.bluffs_detected, data.raises))
                            ELSE <<0, 1>>,
         !.calling_tendency = IF hands > data.folds
                              THEN Min1(Frac(data.calls, hands - data.folds))
                              ELSE <<0, 1>>]

calculate_tendencies(data) ==
    LET hands == data.hands_observed IN
    IF hands < 3 THEN data
    ELSE
      LET d1 == [data EXCEPT !.fold_tendency = Min1(Frac(2 * data.folds, hands))]
          d2 == IF data.raises > 0
                THEN [d1 EXCEPT !.bluff_tendency =
                        Min1(Frac(3 * data.bluffs_detected, data.raises))]
                ELSE d1
      IN  IF hands > data.folds
          THEN [d2 EXCEPT !.calling_tendency =
                  Min1(Frac(data.calls, hands - data.folds))]
          ELSE d2

---------------------------------------------------------------------------
(* SharkAI._update_strategy *)

RECURSIVE SumOver(_, _, _)
\* the sum of field f of the records od[n], n in S
SumOver(od, S, f) ==
    IF S = {} THEN <<0, 1>>
    ELSE LET n == CHOOSE x \in S : TRUE
         IN  FracAdd(od[n][f], SumOver(od, S \ {n}, f))

\* sum(d[f] for d in od.values()) / len(od) > num/den
AvgAbove(od, f, num, den) ==
    LET s == SumOver(od, DOMAIN od, f)
    IN  s[1] * den > num * s[2] * Cardinality(DOMAIN od)

avg_fold_high(od)  == AvgAbove(od, "fold_tendency", 6, 10)
avg_bluff_high(od) == AvgAbove(od, "bluff_tendency", 4, 10)
avg_call_high(od)  == AvgAbove(od, "calling_tendency", 5, 10)

\* the three adjustment blocks, applied in the order of the code
apply_adjustments(cfg, od) ==
      LET c1 == IF avg_fold_high(od)
                THEN [cfg EXCEPT
                        !.bluff_freq   = Min(50, base_config.bluff_freq + 15),
                        !.bet_postflop = Min(70, base_config.bet_postflop + 15),
                        !.af_factor    = base_config.af_factor + 5]
                ELSE cfg
          c2 == IF avg_bluff_high(od)
                THEN [c1 EXCEPT
                        !.vpip_range    = << Max(15, base_config.vpip_range[1] - 5),
                                             Max(20, base_config.vpip_range[2] - 5) >>,
                        !.call_preflop  = Min(40, base_config.call_preflop + 10),
                        !.fold_to_raise = Max(30, base_config.fold_to_raise - 10)]
                ELSE c1
          c3 == IF avg_call_high(od)
                THEN [c2 EXCEPT
                        !.bluff_freq   = Max(10, base_config.bluff_freq - 10),
                        !.bet_postflop = base_config.bet_postflop + 10,
                        !.af_factor    = base_config.af_factor + 3]
                ELSE c2
      IN  c3

\* _update_strategy without the reset of lines 387-388
update_strategy_drifting(cfg, od) ==
    IF DOMAIN od = {} THEN cfg ELSE apply_adjustments(cfg, od)

update_strategy(cfg, od) ==
    IF DOMAIN od = {} THEN cfg
    ELSE IF ~avg_fold_high(od) /\ ~avg_bluff_high(od) /\ ~avg_call_high(od)
    THEN base_config
    ELSE apply_adjustments(cfg, od)

---------------------------------------------------------------------------
(* SharkAI.initialize_opponents *)

\* initialize_opponents without line 297
initialize_keeping_config(players) ==
    /\ opponent_data' = [n \in Tracked(players) |-> NewRecord]
    /\ adaptation_active' = FALSE
    /\ hands_observed' = 0
    /\ current_config' = current_config

initialize_opponents(players) ==
    /\ opponent_data' = [n \in Tracked(players) |-> NewRecord]
    /\ adaptation_active' = FALSE
    /\ hands_observed' = 0
    /\ current_config' = base_config

---------------------------------------------------------------------------
(* SharkAI.update_after_action *)

\* the counters of one record after the action is counted
\* the counting with a bluff counted on whatever action carries the flag
count_action_bluff_anywhere(data, action, is_bluff, facing_cbet) ==
    LET d0 == [data EXCEPT !.hands_observed = @ + 1,
                           !.bluffs_detected = IF is_bluff THEN @ + 1 ELSE @]
        d1 == IF action = "fold"
              THEN [d0 EXCEPT !.folds = @ + 1,
                              !.fold_to_cbet = IF facing_cbet THEN @ + 1 ELSE @]
              ELSE IF action = "call"
              THEN [d0 EXCEPT !.calls = @ + 1]
              ELSE IF action \in {"raise", "bet"}
              THEN [d0 EXCEPT !.raises = @ + 1]
              ELSE d0
    IN  IF facing_cbet THEN [d1 EXCEPT !.cbet_opportunities = @ + 1] ELSE d1

count_action(data, action, is_bluff, facing_cbet) ==
    LET d0 == [data EXCEPT !.hands_observed = @ + 1]
        d1 == IF action = "fold"
              THEN [d0 EXCEPT !.folds = @ + 1,
                              !.fold_to_cbet = IF facing_cbet THEN @ + 1 ELSE @]
              ELSE IF action = "call"
              THEN [d0 EXCEPT !.calls = @ + 1]
              ELSE IF action \in {"raise", "bet"}
              THEN [d0 EXCEPT !.raises = @ + 1,
                              !.bluffs_detected = IF is_bluff THEN @ + 1 ELSE @]
              ELSE d0
    IN  IF facing_cbet THEN [d1 EXCEPT !.cbet_opportunities = @ + 1] ELSE d1

RECURSIVE TotalHands(_, _)
TotalHands(od, S) ==
    IF S = {} THEN 0
    ELSE LET n == CHOOSE x \in S : TRUE
         IN  od[n].hands_observed + TotalHands(od, S \ {n})

\* the early return placed after the global count of line 307
return_untracked_counted ==
    /\ hands_observed' = hands_observed + 1
    /\ UNCHANGED <<opponent_data, adaptation_active, current_config>>

\* the early return for a name without a record
return_untracked == UNCHANGED engine

\* the activation test on the largest record instead of the sum
activation_by_one_record(od) ==
    \E n \in DOMAIN od : od[n].hands_observed >= base_config.adaptation_start

\* the activation test with > for >=
activation_above(od) ==
    TotalHands(od, DOMAIN od) > base_config.adaptation_start

\* total_hands >= self.base_config['adaptation_start']
activation_reached(od) ==
    TotalHands(od, DOMAIN od) >= base_config.adaptation_start

\* the observe call with the strategy recomputed on every recalculation,
\* activated or not
update_after_action_eager(player_name, action, street, is_bluff, facing_cbet) ==
    IF player_name \notin DOMAIN opponent_data
    THEN return_untracked
    ELSE
      LET data   == count_action(opponent_data[player_name], action, is_bluff, facing_cbet)
          od1    == [opponent_data EXCEPT ![player_name] = data]
          active == IF ~adaptation_active THEN activation_reached(od1) ELSE TRUE
          recalc == data.hands_observed % 5 = 0 \/ active
          od2    == IF recalc
                    THEN [od1 EXCEPT ![player_name] = calculate_tendencies(data)]
                    ELSE od1
      IN  /\ hands_observed' = hands_observed + 1
          /\ adaptation_active' = active
          /\ opponent_data' = od2
          /\ current_config' = IF recalc
                               THEN update_strategy(current_config, od2)
                               ELSE current_config

update_after_action(player_name, action, street, is_bluff, facing_cbet) ==
    IF player_name \notin DOMAIN opponent_data
    THEN return_untracked
    ELSE
      LET data   == count_action(opponent_data[player_name], action, is_bluff, facing_cbet)
          od1    == [opponent_data EXCEPT ![player_name] = data]
          active == IF ~adaptation_active THEN activation_reached(od1) ELSE TRUE
          recalc == data.hands_observed % 5 = 0 \/ active
          od2    == IF recalc
                    THEN [od1 EXCEPT ![player_name] = calculate_tendencies(data)]
                    ELSE od1
      IN  /\ hands_observed' = hands_observed + 1
          /\ adaptation_active' = active
          /\ opponent_data' = od2
          /\ current_config' = IF recalc /\ active
                               THEN update_strategy(current_config, od2)
                               ELSE current_config

---------------------------------------------------------------------------
(* SharkAI.get_opponent_summary *)

get_opponent_summary ==
    IF ~adaptation_active THEN "observing"
    ELSE IF \E n \in DOMAIN opponent_data : opponent_data[n].hands_observed >= 5
         THEN "analysis"
         ELSE "learning"

---------------------------------------------------------------------------
(* DrawEvaluator.  A card is [value |-> 2..14, suit |-> "s" | "h" | "d" |  *)
(* "c"]; equities are in hundredths.                                       *)

SeqToSet(s) == { s[i] : i \in 1..Len(s) }

\* how many cards of the sequence satisfy the test
CountCards(cards, Test(_)) == Cardinality({ i \in 1..Len(cards) : Test(cards[i]) })

RECURSIVE SortedSeq(_)
\* sorted(set): the ascending sequence of a set of integers
SortedSeq(S) ==
    IF S = {} THEN << >>
    ELSE LET m == CHOOSE x \in S : \A y \in S : x <= y
         IN  <<m>> \o SortedSeq(S \ {m})

\* a dict: the pairs of the function d and the pair k: v (k: v wins)
Put(d, k, v) == [x \in DOMAIN d \cup {k} |-> IF x = k THEN v ELSE d[x]]

\* dict.get(k, default)
Get(d, k, default) == IF k \in DOMAIN d THEN d[k] ELSE default

\* the combo step testing the gutshot before the open-ended draw
add_combo_gutshot_first(draws) ==
    IF "flush_draw" \in DOMAIN draws /\ "gutshot" \in DOMAIN draws
    THEN Put(draws, "combo_draw", [outs |-> 12, equity |-> 45])
    ELSE IF "flush_draw" \in DOMAIN draws /\ "oesd" \in DOMAIN draws
    THEN Put(draws, "combo_draw", [outs |-> 15, equity |-> 54])
    ELSE draws

\* the combo step that closes identify_draws
add_combo(draws) ==
    IF "flush_draw" \in DOMAIN draws /\ "oesd" \in DOMAIN draws
    THEN Put(draws, "combo_draw", [outs |-> 15, equity |-> 54])
    ELSE IF "flush_draw" \in DOMAIN draws /\ "gutshot" \in DOMAIN draws
    THEN Put(draws, "combo_draw", [outs |-> 12, equity |-> 45])
    ELSE draws

identify_draws(hole_cards, community_cards) ==
    IF community_cards = << >> THEN << >>
    ELSE
      LET all_cards == hole_cards \o community_cards
          values == SortedSeq({ c.value : c \in SeqToSet(all_cards) })
          suits == { c.suit : c \in SeqToSet(all_cards) }
          SuitCount(cards, s) == CountCards(cards, LAMBDA c : c.suit = s)
          flush == \E s \in suits : /\ SuitCount(all_cards, s) = 4
                                    /\ SuitCount(hole_cards, s) >= 1
          backdoor == \E s \in suits : /\ SuitCount(all_cards, s) = 3
                                       /\ Len(community_cards) = 3
          Window(gap) == /\ Len(values) >= 4
                         /\ \E i \in 1..(Len(values) - 3) : values[i + 3] - values[i] = gap
          oesd == Window(3)
          gutshot == Window(4)
          top == CHOOSE v \in { c.value : c \in SeqToSet(community_cards) } :
                    \A c \in SeqToSet(community_cards) : c.value <= v
          overcard_outs == CountCards(hole_cards, LAMBDA c : c.value > top)
          overcards == /\ \E c \in SeqToSet(hole_cards) : c.value >= 12
                       /\ overcard_outs > 0
          d1 == IF flush THEN Put(<< >>, "flush_draw", [outs |-> 9, equity |-> 35])
                ELSE << >>
          d2 == IF backdoor THEN Put(d1, "backdoor_flush", [outs |-> 1, equity |-> 4])
                ELSE d1
          d3 == IF oesd THEN Put(d2, "oesd", [outs |-> 8, equity |-> 31]) ELSE d2
          d4 == IF gutshot THEN Put(d3, "gutshot", [outs |-> 4, equity |-> 16]) ELSE d3
          d5 == IF overcards
                THEN Put(d4, "overcards", [outs |-> overcard_outs * 3,
                                           equity |-> overcard_outs * 12])
                ELSE d4
      IN  add_combo(d5)

RECURSIVE SumEquity(_, _)
\* the sum of the equities of the findings with keys in K
SumEquity(draws, K) ==
    IF K = {} THEN 0
    ELSE LET k == CHOOSE x \in K : TRUE
         IN  draws[k].equity + SumEquity(draws, K \ {k})

\* the equities summed instead of their maximum
calculate_total_equity_summed(draws) == SumEquity(draws, DOMAIN draws)

calculate_total_equity(draws) ==
    IF DOMAIN draws = {} THEN 0
    ELSE LET E == { draws[k].equity : k \in DOMAIN draws }
         IN  CHOOSE e \in E : \A x \in E : x <= e

---------------------------------------------------------------------------
(* PositionAwareness.get_position *)

get_position(player) ==
    IF player.is_dealer THEN "BTN"
    ELSE IF player.is_small_blind THEN "SB"
    ELSE IF player.is_big_blind THEN "BB"
    ELSE "MP"

\* POSITION_MULTIPLIERS.get(position, 1.0), in hundredths
POSITION_MULTIPLIERS(position) ==
    CASE position = "EP"  -> 70
      [] position = "MP"  -> 85
      [] position = "CO"  -> 110
      [] position = "BTN" -> 125
      [] position = "SB"  -> 90
      [] position = "BB"  -> 100
      [] OTHER            -> 100

\* base_threshold in hundredths, the result in ten-thousandths
get_adjusted_threshold(base_threshold, position) ==
    base_threshold * POSITION_MULTIPLIERS(position)

---------------------------------------------------------------------------
(* PotOddsCalculator.  A call returns a record; raised tells whether it    *)
(* left with a Python exception (ZeroDivisionError) instead of a value.    *)

\* a / b for integers a and b
Divide(a, b) ==
    IF b = 0 THEN [raised |-> TRUE, value |-> <<0, 1>>]
    ELSE [raised |-> FALSE, value |-> Rat(a, b)]

calculate_direct_odds(amount_to_call, total_pot) ==
    IF amount_to_call <= 0 THEN [raised |-> FALSE, value |-> <<0, 1>>]
    ELSE Divide(amount_to_call, total_pot + amount_to_call)

\* street_multiplier.get(street, 1.0), in tenths
street_multiplier(street) ==
    IF street = "flop" THEN 25 ELSE IF street = "turn" THEN 13 ELSE 10

\* effective_stack is a fraction, draw_equity is in hundredths
calculate_implied_odds(amount_to_call, total_pot, eff, street, draw_equity) ==
    IF amount_to_call <= 0
    THEN [raised |-> FALSE, total_equity |-> <<0, 1>>, should_call |-> TRUE]
    ELSE
      LET multiplier == street_multiplier(street)
          \* min(eff * 0.3 * draw_equity * multiplier, eff * 0.5)
          potential_future_win ==
              RatMin(Rat(eff[1] * 3 * draw_equity * multiplier, eff[2] * 10000),
                     Rat(eff[1], eff[2] * 2))
          total_potential ==
              Rat(total_pot * potential_future_win[2] + potential_future_win[1],
                  potential_future_win[2])
          direct_equity_needed == Divide(amount_to_call, total_pot + amount_to_call)
      IN  IF direct_equity_needed.raised THEN [raised |-> TRUE]
          ELSE
            LET implied_equity_needed ==
                    IF RatLess(<<amount_to_call, 1>>, total_potential)
                    THEN Rat(amount_to_call * total_potential[2], total_potential[1])
                    ELSE direct_equity_needed.value
            IN  [ raised                |-> FALSE,
                  direct_equity_needed  |-> direct_equity_needed.value,
                  implied_equity_needed |-> implied_equity_needed,
                  potential_future_win  |-> potential_future_win,
                  \* draw_equity > implied_equity_needed * 0.9
                  should_call |-> RatLess(<<9 * implied_equity_needed[1],
                                            10 * implied_equity_needed[2]>>,
                                          <<draw_equity, 100>>) ]

---------------------------------------------------------------------------
(* SPRStrategy *)

\* float('inf'): a fraction with denominator 0
Infinity == <<1, 0>>

calculate_spr(eff, pot) ==
    IF pot <= 0 THEN Infinity ELSE Rat(eff[1], eff[2] * pot)

\* spr >= k
SprAtLeast(spr, k) == spr[1] >= k * spr[2]

\* spr > k
SprAbove(spr, k) == spr[1] > k * spr[2]

\* commit_threshold and hand_requirement are in hundredths
get_strategy_by_spr(spr, hand_strength, draw_equity) ==
    IF SprAbove(spr, 15)
    THEN [ play_speculative |-> TRUE, set_mine |-> TRUE, commit_threshold |-> 75,
           avoid_light_commit |-> TRUE, hand_requirement |-> 55 ]
    ELSE IF SprAbove(spr, 7)
    THEN [ play_speculative |-> draw_equity > 25, set_mine |-> TRUE,
           commit_threshold |-> 65, avoid_light_commit |-> FALSE,
           hand_requirement |-> 50 ]
    ELSE IF SprAbove(spr, 3)
    THEN [ play_speculative |-> FALSE, set_mine |-> FALSE, commit_threshold |-> 55,
           avoid_light_commit |-> FALSE, hand_requirement |-> 48,
           push_fold |-> FALSE ]
    ELSE [ play_speculative |-> FALSE, set_mine |-> FALSE, commit_threshold |-> 45,
           avoid_light_commit |-> FALSE, hand_requirement |-> 42,
           push_fold |-> TRUE ]
---------------------------------------------------------------------------
(* The Action members (texas_holdem.utils.constants.Action) and their names.*)

Actions == {"FOLD", "CHECK", "CALL", "BET", "RAISE", "ALL_IN"}

\* str(a).lower().replace('action.', '')
ActionName(a) ==
    CASE a = "FOLD"   -> "fold"
      [] a = "CHECK"  -> "check"
      [] a = "CALL"   -> "call"
      [] a = "BET"    -> "bet"
      [] a = "RAISE"  -> "raise"
      [] a = "ALL_IN" -> "all_in"

\* action_map.get(name, Action.FOLD)
action_map(name) ==
    CASE name = "fold"   -> "FOLD"
      [] name = "check"  -> "CHECK"
      [] name = "call"   -> "CALL"
      [] name = "bet"    -> "BET"
      [] name = "raise"  -> "RAISE"
      [] name = "all_in" -> "ALL_IN"
      [] OTHER           -> "FOLD"

\* action == s and action in [s1, s2, ...] for an Action member and str
\* literals: true only where Action members compare equal to their names
member_equals(action, s) == action_is_str /\ ActionName(action) = s

---------------------------------------------------------------------------
(* SharkAI._preflop_decision.  hand_strength is in hundredths.             *)

TIER3_THRESHOLD == 60

\* position_multipliers.get(position, 1.0), in hundredths
preflop_multiplier(position) ==
    CASE position = "EP"  -> 100
      [] position = "MP"  -> 98
      [] position = "CO"  -> 95
      [] position = "BTN" -> 93
      [] position = "SB"  -> 98
      [] position = "BB"  -> 95
      [] OTHER            -> 100

Return(action, amount) == [action |-> action, amount |-> amount]

\* raise_amount = max(40, amount_to_call + 30)
premium_raise(amount_to_call) == Max(40, amount_to_call + 30)

preflop_decision(player, available_actions, amount_to_call, hand_strength, position, spr_guidance, config) ==
    LET available_names == { ActionName(a) : a \in available_actions }
        check_or_fold == IF amount_to_call <= 0 /\ "check" \in available_names
                         THEN Return("CHECK", 0)
                         ELSE Return("FOLD", 0)
    IN  \* hand_strength < tier_threshold * multiplier
        IF hand_strength * 100 < TIER3_THRESHOLD * preflop_multiplier(position)
        THEN check_or_fold
        ELSE IF hand_strength >= 80
        THEN IF "raise" \in available_names
             THEN Return("RAISE", premium_raise(amount_to_call))
             ELSE IF "bet" \in available_names
             THEN Return("BET", 40)
             ELSE Return("FOLD", 0)
        ELSE IF hand_strength >= 70
        THEN IF position \in {"EP", "MP"}
             THEN IF amount_to_call > 0 /\ "call" \in available_names
                  THEN Return("CALL", 0)
                  ELSE IF "check" \in available_names
                  THEN Return("CHECK", 0)
                  ELSE IF "raise" \in available_names
                  THEN Return("RAISE", 40)
                  ELSE Return("FOLD", 0)
             ELSE IF "raise" \in available_names
                  THEN Return("RAISE", 40)
                  ELSE IF "call" \in available_names
                  THEN Return("CALL", 0)
                  ELSE Return("FOLD", 0)
        ELSE IF /\ position \in {"CO", "BTN", "SB"}
                /\ "raise" \in available_names
                /\ amount_to_call <= 20
             THEN Return("RAISE", 40)
             ELSE IF /\ position \in {"CO", "BTN", "SB"}
                     /\ "call" \in available_names
                     /\ amount_to_call <= 20
             THEN Return("CALL", 0)
             ELSE check_or_fold

---------------------------------------------------------------------------
(* SharkAI._calculate_postflop_weights.  Weights are in thousandths.       *)

ActionOrder == <<"fold", "check", "call", "bet", "raise", "all_in">>

\* the weight table with a share of the top band given to all_in
calculate_postflop_weights_shoving(hand_strength, draw_equity, config, spr_guidance) ==
    LET total_equity == 7 * hand_strength + 3 * draw_equity
        bluff_freq == config.bluff_freq
        zero == [k \in SeqToSet(ActionOrder) |-> 0]
    IN  IF total_equity > 800
        THEN [zero EXCEPT !["raise"] = 500, !["bet"] = 350, !["all_in"] = 150]
        ELSE IF total_equity > 600
        THEN [zero EXCEPT !["bet"] = 450, !["raise"] = 250, !["call"] = 250,
                          !["check"] = 50]
        ELSE IF total_equity > 450
        THEN [zero EXCEPT !["call"] = 450, !["check"] = 300, !["bet"] = 150,
                          !["fold"] = 100]
        ELSE IF total_equity > 300 \/ draw_equity > 15
        THEN [zero EXCEPT !["call"] = 350, !["check"] = 300, !["fold"] = 250,
                          !["bet"] = 8 * bluff_freq]
        ELSE [zero EXCEPT !["fold"] = 550, !["check"] = 350, !["call"] = 80,
                          !["bet"] = 2 * bluff_freq]

calculate_postflop_weights(hand_strength, draw_equity, config, spr_guidance) ==
    LET \* hand_strength * 0.7 + draw_equity * 0.3, in thousandths
        total_equity == 7 * hand_strength + 3 * draw_equity
        bluff_freq == config.bluff_freq
        zero == [k \in SeqToSet(ActionOrder) |-> 0]
    IN  IF total_equity > 800
        THEN [zero EXCEPT !["raise"] = 500, !["bet"] = 350, !["call"] = 150]
        ELSE IF total_equity > 600
        THEN [zero EXCEPT !["bet"] = 450, !["raise"] = 250, !["call"] = 250,
                          !["check"] = 50]
        ELSE IF total_equity > 450
        THEN [zero EXCEPT !["call"] = 450, !["check"] = 300, !["bet"] = 150,
                          !["fold"] = 100]
        ELSE IF total_equity > 300 \/ draw_equity > 15
        THEN [zero EXCEPT !["call"] = 350, !["check"] = 300, !["fold"] = 250,
                          \* 0.08 * bluff_freq * 10
                          !["bet"] = 8 * bluff_freq]
        ELSE [zero EXCEPT !["fold"] = 550, !["check"] = 350, !["call"] = 80,
                          \* 0.02 * bluff_freq * 10
                          !["bet"] = 2 * bluff_freq]

---------------------------------------------------------------------------
(* SharkAI._weighted_choice.  The dict keeps the order of ActionOrder; the *)
(* draw random.random() is u hundredths.                                   *)

RECURSIVE CumWeight(_, _)
\* the sum of the weights of the first i keys of the dict
CumWeight(weights, i) ==
    IF i = 0 THEN 0
    ELSE CumWeight(weights, i - 1)
         + (IF ActionOrder[i] \in DOMAIN weights THEN weights[ActionOrder[i]] ELSE 0)

weighted_choice(weights, u) ==
    LET total == CumWeight(weights, Len(ActionOrder))
        keys == { i \in 1..Len(ActionOrder) : ActionOrder[i] \in DOMAIN weights }
        \* r <= cumulative, r = u / 100 * total
        hits == { i \in keys : u * total <= 100 * CumWeight(weights, i) }
    IN  IF total = 0 THEN "fold"
        ELSE IF hits # {}
        THEN ActionOrder[CHOOSE i \in hits : \A j \in hits : i <= j]
        ELSE ActionOrder[CHOOSE i \in keys : \A j \in keys : j <= i]

---------------------------------------------------------------------------
(* SharkAI._calculate_amount *)

\* the share rounded up to a whole chip
PotShareUp(total_pot, p) == (total_pot * p + 99) \div 100

\* int(total_pot * p / 100) for total_pot > 0
PotShare(total_pot, p) == (total_pot * p) \div 100

\* the target of a raise taken from the fraction table of the opening bet
raise_target_as_bet(total_pot, total_strength, draw_equity, current_bet) ==
    IF total_strength > 160 THEN PotShare(total_pot, 75)
    ELSE IF total_strength > 120 THEN PotShare(total_pot, 66)
    ELSE IF draw_equity > 25 THEN PotShare(total_pot, 60)
    ELSE IF total_strength > 90 THEN PotShare(total_pot, 33)
    ELSE current_bet + 40

\* target_total of a raise; total_strength is in two-hundredths
raise_target(total_pot, total_strength, draw_equity, current_bet) ==
    IF total_strength > 160 THEN PotShare(total_pot, 75)
    ELSE IF total_strength > 120 THEN PotShare(total_pot, 66)
    ELSE IF draw_equity > 25 THEN PotShare(total_pot, 60)
    ELSE IF total_strength > 90 THEN PotShare(total_pot, 50)
    ELSE current_bet + 20 * 2

\* the sizing scaled by the aggression factor it reads (2.5 is 25)
calculate_amount_by_af(action, player, amount_to_call, current_bet, hand_strength, draw_equity, config, pot) ==
    IF \E s \in {"fold", "check", "call"} : member_equals(action, s) THEN 0
    ELSE IF member_equals(action, "all_in") THEN player.chips
    ELSE
      LET total_pot == IF pot <= 0 THEN 100 ELSE pot
          total_strength == 2 * hand_strength + draw_equity
          sized == IF current_bet = 0
                   THEN IF total_strength > 160 THEN PotShare(total_pot, 75)
                        ELSE IF total_strength > 120 THEN PotShare(total_pot, 66)
                        ELSE IF draw_equity > 25 THEN PotShare(total_pot, 60)
                        ELSE IF total_strength > 90 THEN PotShare(total_pot, 33)
                        ELSE PotShare(total_pot, 25)
                   ELSE Max(0, raise_target(total_pot, total_strength, draw_equity,
                                            current_bet) - current_bet)
      IN  Max(40, (sized * config.af_factor) \div 25)

calculate_amount(action, player, amount_to_call, current_bet, hand_strength, draw_equity, config, pot) ==
    IF \E s \in {"fold", "check", "call"} : member_equals(action, s) THEN 0
    ELSE IF member_equals(action, "all_in") THEN player.chips
    ELSE
      LET total_pot == IF pot <= 0 THEN 100 ELSE pot
          big_blind == 20
          \* hand_strength + draw_equity * 0.5, in two-hundredths
          total_strength == 2 * hand_strength + draw_equity
      IN  IF current_bet = 0
          THEN LET bet_size ==
                      IF total_strength > 160 THEN PotShare(total_pot, 75)
                      ELSE IF total_strength > 120 THEN PotShare(total_pot, 66)
                      ELSE IF draw_equity > 25 THEN PotShare(total_pot, 60)
                      ELSE IF total_strength > 90 THEN PotShare(total_pot, 33)
                      ELSE PotShare(total_pot, 25)
               IN  Max(big_blind * 2, bet_size)
          ELSE LET target_total ==
                      raise_target(total_pot, total_strength, draw_equity, current_bet)
                   raise_amount == Max(0, target_total - current_bet)
               IN  Max(big_blind * 2, raise_amount)

---------------------------------------------------------------------------
(* SharkAI._postflop_decision.  total_equity is in two-hundredths, u is the *)
(* random draw of the weighted choice.                                      *)

\* the draw step with the semi-bluff raise tested before the call
draw_step_raise_first(draw_equity, should_call, available_names, hand_strength) ==
    IF draw_equity > 15 /\ draw_equity > 30 /\ "raise" \in available_names
                        /\ hand_strength < 50
    THEN "raise"
    ELSE IF draw_equity > 15 /\ should_call /\ "call" \in available_names
    THEN "call"
    ELSE "none"

\* the draw step: what it returns with, or "none" when it falls through
draw_step(draw_equity, should_call, available_names, hand_strength) ==
    IF draw_equity > 15 /\ should_call /\ "call" \in available_names
    THEN "call"
    ELSE IF draw_equity > 15 /\ draw_equity > 30 /\ "raise" \in available_names
                             /\ hand_strength < 50
    THEN "raise"
    ELSE "none"

\* the weights kept without the test for a legal action
valid_weights_unfiltered(action_weights, available_names) ==
    LET valid0 == { k \in DOMAIN action_weights : action_weights[k] > 0 }
        valid1 == IF "check" \in available_names
                  THEN valid0 \ {"fold"} ELSE valid0
    IN  [k \in valid1 |-> action_weights[k]]

\* the dict valid: the positive weights of the legal actions, without fold
\* when check is legal
valid_weights(action_weights, available_names) ==
    LET valid0 == { k \in DOMAIN action_weights :
                      k \in available_names /\ action_weights[k] > 0 }
        valid1 == IF "check" \in available_names
                  THEN valid0 \ {"fold"} ELSE valid0
    IN  [k \in valid1 |-> action_weights[k]]

postflop_decision(player, available_actions, amount_to_call, current_bet, hand_strength, draw_equity, total_equity, direct_odds, implied_calc, spr_guidance, config, draws, total_pot, u) ==
    LET available_names == { ActionName(a) : a \in available_actions }
        drawn == draw_step(draw_equity, implied_calc.should_call, available_names,
                           hand_strength)
    IN  IF Get(spr_guidance, "push_fold", FALSE)
        THEN IF total_equity >= 2 * spr_guidance.commit_threshold
             THEN Return("ALL_IN", player.chips)
             ELSE Return("FOLD", 0)
        ELSE IF drawn = "call"
        THEN Return("CALL", 0)
        ELSE IF drawn = "raise"
        THEN Return("RAISE", Max(40, current_bet + 20))
        ELSE
          LET action_weights == calculate_postflop_weights(
                                    hand_strength, draw_equity, config, spr_guidance)
              valid == valid_weights(action_weights, available_names)
          IN  IF DOMAIN valid = {} THEN Return("FOLD", 0)
              ELSE
                LET action == action_map(weighted_choice(valid, u))
                IN  Return(action,
                           calculate_amount(action, player, amount_to_call,
                                            current_bet, hand_strength, draw_equity,
                                            config, total_pot))

---------------------------------------------------------------------------
(* SharkAI.get_action.  game_state is the request's state, table and       *)
(* players; a calculator's exception leaves the call, which then returns  *)
(* no action.                                                              *)

\* street_map.get(game_state.state, 'preflop')
street_map(state) ==
    CASE state = "PRE_FLOP" -> "preflop"
      [] state = "FLOP"     -> "flop"
      [] state = "TURN"     -> "turn"
      [] state = "RIVER"    -> "river"
      [] state = "SHOWDOWN" -> "river"
      [] OTHER              -> "preflop"

RECURSIVE SumChips(_)
SumChips(players) ==
    IF players = << >> THEN 0 ELSE Head(players).chips + SumChips(Tail(players))

\* min(player.chips, sum(p.chips for p in active) / max(1, len(active) - 1))
effective_stack_of(player, players) ==
    LET active_players == SelectSeq(players, LAMBDA p : p.is_active)
    IN  RatMin(<<player.chips, 1>>,
               Rat(SumChips(active_players), Max(1, Len(active_players) - 1)))

\* the draw equity get_action works with
draw_equity_of(req) ==
    calculate_total_equity(identify_draws(req.player.hand, req.community_cards))

\* the guidance get_action works with
spr_guidance_of(req) ==
    get_strategy_by_spr(
        calculate_spr(effective_stack_of(req.player, req.players), req.total_pot),
        req.hand_strength, draw_equity_of(req))

get_action(req, config, u) ==
    LET player == req.player
        position == get_position(player)
        eff == effective_stack_of(player, req.players)
        draws == identify_draws(player.hand, req.community_cards)
        draw_equity == calculate_total_equity(draws)
        street == street_map(req.state)
        \* win_probability + draw_equity * 0.5, in two-hundredths
        total_equity == 2 * req.win_probability + draw_equity
        direct_odds == calculate_direct_odds(req.amount_to_call, req.total_pot)
        implied_calc == calculate_implied_odds(req.amount_to_call, req.total_pot,
                                               eff, street, draw_equity)
        spr_guidance == spr_guidance_of(req)
    IN  IF direct_odds.raised \/ implied_calc.raised
        THEN Return("ZeroDivisionError", 0)
        ELSE IF req.state = "PRE_FLOP"
        THEN preflop_decision(player, req.available_actions, req.amount_to_call,
                              req.hand_strength, position, spr_guidance, config)
        ELSE postflop_decision(player, req.available_actions, req.amount_to_call,
                               req.current_bet, req.hand_strength, draw_equity,
                               total_equity, direct_odds, implied_calc, spr_guidance,
                               config, draws, req.total_pot, u)
---------------------------------------------------------------------------
(* SaveManager (src/texas_holdem/utils/save_manager.py).  A Python value   *)
(* is a record [kind, items]; a save dict holds one entry 'payload' and,   *)
(* once save_game has stamped it, 'save_time'.  A JSON document on disk is *)
(* either complete or the prefix written before the encoder failed.        *)

Slots == {1, 2}

\* what datetime.now() can format to
Times == {"07:49:24", "07:49:25"}

Absent == "absent"

\* Python values a caller can put into a save dict
PyInt(n)      == [kind |-> "int", items |-> <<n>>]
PyList(items) == [kind |-> "list", items |-> items]
PyTuple(items) == [kind |-> "tuple", items |-> items]
PyObject      == [kind |-> "object", items |-> << >>]

Payloads == { PyInt(7), PyList(<<12, 18>>), PyTuple(<<12, 18>>), PyObject }

\* the dict {'payload': p} and the dict with 'save_time' set
SaveData(p) == [payload |-> p, save_time |-> Absent]
Stamped(data, now) == [data EXCEPT !.save_time = now]

NoData == [payload |-> [kind |-> "None", items |-> << >>], save_time |-> Absent]

\* files
NoFile == [exists |-> FALSE, complete |-> FALSE, doc |-> NoData]
Truncated == [exists |-> TRUE, complete |-> FALSE, doc |-> NoData]
Written(doc) == [exists |-> TRUE, complete |-> TRUE, doc |-> doc]

NoFiles == [slot \in Slots |-> NoFile]
NoSaves == [slot \in Slots |-> NoData]

\* json.dump(save_data, f): the encoder writes a number for an int and an
\* array for a list or a tuple, and raises TypeError on any other object
\* after the text before it has been written
json_serializable(data) == data.payload.kind \in {"int", "list", "tuple"}
json_dump(data) ==
    [data EXCEPT !.payload.kind = IF @ = "int" THEN "number" ELSE "array"]

\* json.load(f) of a complete document: a number is an int, an array a list
json_load(doc) ==
    [doc EXCEPT !.payload.kind = IF @ = "number" THEN "int" ELSE "list"]

\* save_game: the file is opened for writing (truncated) and the stamped
\* dict is dumped into it; any exception is caught and gives False
save_game_file(save_data, now) ==
    LET stamped == Stamped(save_data, now)
    IN  IF json_serializable(stamped) THEN Written(json_dump(stamped)) ELSE Truncated

save_game_returns(save_data) == json_serializable(save_data)

\* load_game: None when the file is missing or json.load raises
load_game(file) ==
    IF ~file.exists THEN [returned |-> "None", data |-> NoData]
    ELSE IF ~file.complete THEN [returned |-> "None", data |-> NoData]
    ELSE [returned |-> "dict", data |-> json_load(file.doc)]

has_save(file) == file.exists

\* delete_save: True when the file existed and was removed
delete_save_returns(file) == file.exists

BoolName(b) == IF b THEN "True" ELSE "False"

---------------------------------------------------------------------------
(* The engine driven by the game harness. *)

\* no call of the decision interface has been made
NoCall == [fn |-> "none"]

\* SharkAI.__init__
Constructed ==
    /\ opponent_data = << >>
    /\ adaptation_active = FALSE
    /\ hands_observed = 0
    /\ current_config = base_config
    /\ current_street = "preflop"
    /\ effective_stack = <<0, 1>>
    /\ last_call = <<"init">>
    /\ result = NoCall
    /\ saves = NoFiles
    /\ save_log = NoSaves

\* the opponent model reads neither the request nor the Action members
Init ==
    /\ Constructed
    /\ request = NoCall
    /\ action_is_str = FALSE

\* the harness registers the players of a new session; the log keeps what
\* the call found: the activation flag and whether the configuration had
\* left the baseline
RegisterFrom(lists) ==
    \E players \in lists :
        /\ initialize_opponents(players)
        /\ last_call' = <<"register", adaptation_active, current_config # base_config>>
        /\ UNCHANGED desk

\* the harness reports one action of a player
ObserveFrom(names, actions, flags, bound) ==
    \E name \in names, action \in actions, street \in {"flop"},
       is_bluff \in flags, facing_cbet \in flags :
        /\ hands_observed < bound
        /\ update_after_action(name, action, street, is_bluff, facing_cbet)
        /\ last_call' = <<"observe", name>>
        /\ UNCHANGED desk

(* Spec: sessions with one tracked opponent, driven as the repository's     *)
(* harnesses drive the engine (test_shark_ai.py:173, benchmark_shark.py:214 *)
(* pass no is_bluff and no facing_cbet), long enough to activate adaptation.*)

SoloLists ==
    { <<Bot("shark", "SHARK")>>,
      <<Human("p1"), Bot("shark", "SHARK")>>,
      <<Bot("p2", "TAG"), Bot("shark", "SHARK")>> }

ObservedActions == {"fold", "check", "call", "raise"}

Register == RegisterFrom(SoloLists)

Observe == ObserveFrom(Names, ObservedActions, {FALSE}, MaxObserved)

Next == Register \/ Observe

Spec == Init /\ [][Next]_vars

---------------------------------------------------------------------------
(* SpecDuo: sessions with two tracked opponents who fold or call, long     *)
(* enough to activate adaptation on their summed observations.             *)

DuoLists == { <<Human("p1"), Bot("p2", "TAG"), Bot("shark", "SHARK")>> }

RegisterDuo == RegisterFrom(DuoLists)

ObserveDuo == ObserveFrom(Names, {"fold", "call"}, {FALSE}, MaxObserved)

NextDuo == RegisterDuo \/ ObserveDuo

SpecDuo == Init /\ [][NextDuo]_vars

---------------------------------------------------------------------------
(* SpecLog: short sessions with two tracked opponents and every value of   *)
(* is_bluff and facing_cbet.                                               *)

PairLists ==
    SoloLists \cup { <<Human("p1"), Bot("p2", "TAG"), Bot("shark", "SHARK")>> }

RegisterPair == RegisterFrom(PairLists)

ObserveFlagged ==
    ObserveFrom(Names, ObservedActions \cup {"bet"}, BOOLEAN, MaxLogged)

NextLog == RegisterPair \/ ObserveFlagged

SpecLog == Init /\ [][NextLog]_vars

---------------------------------------------------------------------------
(* SpecTend: one recomputation of the scores of one opponent record.       *)

MaxHands == 6

\* the scores a record can hold before a recomputation
PriorScores == { <<1, 2>>, <<0, 1>>, <<1, 1>>, <<2, 3>> }

\* records as update_after_action leaves them: every observation counts one
\* hand and at most one of fold, call, raise; bluffs are counted on raises
TendRecords ==
    { [NewRecord EXCEPT !.hands_observed = h, !.folds = f, !.calls = c,
                        !.raises = r, !.bluffs_detected = b,
                        !.fold_tendency = t, !.bluff_tendency = t,
                        !.calling_tendency = t] :
        h \in 0..MaxHands, f \in 0..MaxHands, c \in 0..MaxHands,
        r \in 0..MaxHands, b \in 0..MaxHands, t \in PriorScores }

TendRequests ==
    { [fn |-> "_calculate_tendencies", data |-> d] :
        d \in { x \in TendRecords :
                  /\ x.folds + x.calls + x.raises <= x.hands_observed
                  /\ x.bluffs_detected <= x.raises } }

InitTend ==
    /\ Constructed
    /\ request \in TendRequests
    /\ action_is_str = FALSE

Recalculate ==
    /\ request.fn = "_calculate_tendencies"
    /\ result = NoCall
    /\ result' = [raised |-> FALSE, value |-> calculate_tendencies(request.data)]
    /\ last_call' = <<request.fn>>
    /\ UNCHANGED <<engine, current_street, effective_stack, request, action_is_str, disk>>

NextTend == Recalculate

SpecTend == InitTend /\ [][NextTend]_vars

---------------------------------------------------------------------------
(* SpecSave: any sequence of SaveManager calls on two slots.               *)

InitSave ==
    /\ Constructed
    /\ request = NoCall
    /\ action_is_str = FALSE

SaveGame ==
    \E slot \in Slots, p \in Payloads, now \in Times :
        LET save_data == SaveData(p)
            ok == save_game_returns(save_data)
        IN  /\ saves' = [saves EXCEPT ![slot] = save_game_file(save_data, now)]
            /\ save_log' = IF ok
                           THEN [save_log EXCEPT ![slot] = Stamped(save_data, now)]
                           ELSE save_log
            /\ request' = [fn |-> "save_game", slot |-> slot, save_data |-> save_data]
            /\ result' = [returned |-> BoolName(ok), data |-> NoData]
            /\ last_call' = <<"save_game", slot>>
            /\ UNCHANGED <<engine, current_street, effective_stack, action_is_str>>

LoadGame ==
    \E slot \in Slots :
        /\ request' = [fn |-> "load_game", slot |-> slot, save_data |-> NoData]
        /\ result' = load_game(saves[slot])
        /\ last_call' = <<"load_game", slot>>
        /\ UNCHANGED <<engine, current_street, effective_stack, action_is_str, disk>>

HasSave ==
    \E slot \in Slots :
        /\ request' = [fn |-> "has_save", slot |-> slot, save_data |-> NoData]
        /\ result' = [returned |-> BoolName(has_save(saves[slot])), data |-> NoData]
        /\ last_call' = <<"has_save", slot>>
        /\ UNCHANGED <<engine, current_street, effective_stack, action_is_str, disk>>

DeleteSave ==
    \E slot \in Slots :
        /\ saves' = [saves EXCEPT ![slot] = NoFile]
        /\ save_log' = [save_log EXCEPT ![slot] = NoData]
        /\ request' = [fn |-> "delete_save", slot |-> slot, save_data |-> NoData]
        /\ result' = [returned |-> BoolName(delete_save_returns(saves[slot])),
                      data |-> NoData]
        /\ last_call' = <<"delete_save", slot>>
        /\ UNCHANGED <<engine, current_street, effective_stack, action_is_str>>

NextSave == SaveGame \/ LoadGame \/ HasSave \/ DeleteSave

SpecSave == InitSave /\ [][NextSave]_vars

---------------------------------------------------------------------------
(* SpecDecide: one decision request, answered by get_action.               *)

Card(v, s) == [value |-> v, suit |-> s]

\* the phase with the cards known in it
Deals ==
    { [state |-> "PRE_FLOP", hand |-> <<Card(14, "s"), Card(13, "s")>>,
       community |-> << >>],
      [state |-> "FLOP", hand |-> <<Card(14, "s"), Card(13, "s")>>,
       community |-> <<Card(12, "s"), Card(11, "s"), Card(2, "d")>>],
      [state |-> "FLOP", hand |-> <<Card(7, "c"), Card(2, "d")>>,
       community |-> <<Card(13, "s"), Card(9, "h"), Card(4, "c")>>],
      [state |-> "TURN", hand |-> <<Card(9, "h"), Card(8, "h")>>,
       community |-> <<Card(7, "s"), Card(6, "d"), Card(2, "c"), Card(13, "d")>>],
      [state |-> "FLOP", hand |-> <<Card(9, "s"), Card(8, "d")>>,
       community |-> <<Card(6, "c"), Card(5, "h"), Card(13, "d")>>],
      [state |-> "RIVER", hand |-> <<Card(14, "h"), Card(5, "h")>>,
       community |-> <<Card(13, "h"), Card(9, "h"), Card(2, "s"), Card(3, "c"),
                       Card(7, "d")>>],
      [state |-> "FLOP", hand |-> <<Card(12, "d"), Card(11, "d")>>,
       community |-> <<Card(2, "d"), Card(7, "c"), Card(9, "s")>>] }

\* hand_strength, in hundredths
Strengths == {20, 45, 58, 65, 75, 90, 100}

\* what the betting round offers the acting player:
\* <<legal-action set, amount_to_call, current_bet>>; check is offered
\* when nothing is to be called, call when something is
Offers ==
    { << {"FOLD", "CHECK", "BET", "ALL_IN"}, 0, 0 >>,
      << {"CHECK", "BET", "ALL_IN"}, 0, 0 >>,
      << {"FOLD", "CHECK"}, 0, 0 >>,
      << {"FOLD", "CHECK", "RAISE", "ALL_IN"}, 0, 20 >>,
      << {"FOLD", "CALL", "RAISE", "ALL_IN"}, 20, 20 >>,
      << {"FOLD", "CALL", "RAISE", "ALL_IN"}, 30, 40 >>,
      << {"FOLD", "CALL"}, 20, 20 >>,
      << {"FOLD", "CALL"}, 30, 40 >>,
      << {"FOLD", "ALL_IN"}, 30, 40 >> }

Pots == {30, 200}

Seat(chips, active) == [chips |-> chips, is_active |-> active]

\* game_state.players, the acting player first
Tables ==
    { <<Seat(1000, TRUE), Seat(400, TRUE), Seat(401, TRUE)>>,
      <<Seat(50, TRUE), Seat(1000, TRUE), Seat(1000, TRUE)>>,
      <<Seat(2000, TRUE), Seat(2900, TRUE), Seat(700, FALSE)>> }

\* <<is_dealer, is_small_blind, is_big_blind>>
SeatRoles ==
    { <<TRUE, FALSE, FALSE>>, <<FALSE, FALSE, TRUE>>, <<FALSE, FALSE, FALSE>> }

DecisionRequests ==
    { [ fn                |-> "get_action",
        player            |-> [ chips          |-> t[1].chips,
                                is_dealer      |-> r[1],
                                is_small_blind |-> r[2],
                                is_big_blind   |-> r[3],
                                hand           |-> d.hand ],
        available_actions |-> o[1],
        amount_to_call    |-> o[2],
        current_bet       |-> o[3],
        total_pot         |-> pot,
        players           |-> t,
        community_cards   |-> d.community,
        state             |-> d.state,
        hand_strength     |-> hs,
        win_probability   |-> wp ] :
      d \in Deals, hs \in Strengths, wp \in {40, 90}, o \in Offers,
      pot \in Pots, t \in Tables, r \in SeatRoles }

\* random.random(), in hundredths
RandomDraws == {0, 35, 70, 99}

InitDecide ==
    /\ Constructed
    /\ request \in DecisionRequests
    /\ action_is_str \in BOOLEAN

Decide ==
    \E u \in RandomDraws :
        /\ request.fn = "get_action"
        /\ result' = get_action(request, current_config, u)
        /\ current_street' = street_map(request.state)
        /\ effective_stack' = effective_stack_of(request.player, request.players)
        /\ last_call' = <<"get_action">>
        /\ UNCHANGED <<engine, request, action_is_str, disk>>

NextDecide == Decide

SpecDecide == InitDecide /\ [][NextDecide]_vars

---------------------------------------------------------------------------
(* SpecCalc: the calculators applied to arguments of every sign.           *)

CallCosts == {-10, 0, 10, 30}
CalcPots == {-30, -10, 0, 30, 150, 200}
CalcStacks == {0, 50, 1000}
CalcStreets == {"preflop", "flop", "turn", "river"}
CalcEquities == {0, 16, 35, 54}
\* stack-to-pot ratios, the regime boundaries among them
CalcRatios ==
    { <<0, 1>>, <<1, 1>>, <<3, 1>>, <<31, 10>>, <<5, 1>>, <<7, 1>>, <<71, 10>>,
      <<10, 1>>, <<15, 1>>, <<151, 10>>, <<40, 1>>, Infinity }
CalcDrawEquities == {0, 16, 25, 26, 54}
Positions == {"EP", "MP", "CO", "BTN", "SB", "BB"}
\* base thresholds, in hundredths
CalcThresholds == {1, 42, 60, 100}

CalcRequests ==
    { [fn |-> "calculate_direct_odds", amount_to_call |-> c, total_pot |-> p] :
        c \in CallCosts, p \in CalcPots }
    \cup
    { [fn |-> "calculate_implied_odds", amount_to_call |-> c, total_pot |-> p,
       effective_stack |-> e, street |-> s, draw_equity |-> q] :
        c \in CallCosts, p \in CalcPots, e \in CalcStacks, s \in CalcStreets,
        q \in CalcEquities }
    \cup
    { [fn |-> "calculate_spr", effective_stack |-> e, total_pot |-> p] :
        e \in CalcStacks, p \in CalcPots }
    \cup
    { [fn |-> "calculate_amount", action |-> a, chips |-> e, current_bet |-> b,
       hand_strength |-> hs, draw_equity |-> q, total_pot |-> p] :
        a \in {"BET", "RAISE"}, e \in CalcStacks, b \in {0, 40},
        hs \in {20, 50, 85}, q \in CalcEquities, p \in CalcPots }
    \cup
    { [fn |-> "get_strategy_by_spr", spr |-> r, hand_strength |-> hs,
       draw_equity |-> q] :
        r \in CalcRatios, hs \in {20, 85}, q \in CalcDrawEquities }
    \cup
    { [fn |-> "get_adjusted_threshold", base_threshold |-> b, position |-> l] :
        b \in CalcThresholds, l \in Positions }

InitCalc ==
    /\ Constructed
    /\ request \in CalcRequests
    /\ action_is_str \in BOOLEAN

CalcValue(req) ==
    CASE req.fn = "calculate_direct_odds" ->
            calculate_direct_odds(req.amount_to_call, req.total_pot)
      [] req.fn = "calculate_implied_odds" ->
            calculate_implied_odds(req.amount_to_call, req.total_pot,
                                   <<req.effective_stack, 1>>, req.street,
                                   req.draw_equity)
      [] req.fn = "calculate_spr" ->
            [raised |-> FALSE,
             value |-> calculate_spr(<<req.effective_stack, 1>>, req.total_pot)]
      [] req.fn = "calculate_amount" ->
            [raised |-> FALSE,
             value |-> calculate_amount(req.action, [chips |-> req.chips], 0,
                                        req.current_bet, req.hand_strength,
                                        req.draw_equity, current_config,
                                        req.total_pot)]
      [] req.fn = "get_strategy_by_spr" ->
            [raised |-> FALSE,
             value |-> get_strategy_by_spr(req.spr, req.hand_strength,
                                           req.draw_equity)]
      [] req.fn = "get_adjusted_threshold" ->
            [raised |-> FALSE,
             value |-> get_adjusted_threshold(req.base_threshold, req.position)]

Calculate ==
    /\ request.fn \in {"calculate_direct_odds", "calculate_implied_odds",
                       "calculate_spr", "calculate_amount",
                       "get_strategy_by_spr", "get_adjusted_threshold"}
    /\ result = NoCall
    /\ result' = CalcValue(request)
    /\ last_call' = <<request.fn>>
    /\ UNCHANGED <<engine, current_street, effective_stack, request, action_is_str, disk>>

NextCalc == Calculate

SpecCalc == InitCalc /\ [][NextCalc]_vars


---------------------------------------------------------------------------
(* SpecDraw: the draw evaluator applied to two hole cards and a board of   *)
(* no, three or four cards dealt from a short deck.                        *)

Deck ==
    << Card(14, "s"), Card(12, "s"), Card(11, "s"), Card(10, "s"), Card(9, "s"),
       Card(6, "s"), Card(13, "d"), Card(7, "d"), Card(8, "h"), Card(2, "c") >>

\* the cards of the deck at the positions S, in deck order
Dealt(S) == LET idx == SortedSeq(S) IN [k \in 1..Len(idx) |-> Deck[idx[k]]]

DrawRequests ==
    { [fn |-> "identify_draws", hole_cards |-> Dealt(H), community_cards |-> Dealt(B)] :
        H \in { X \in SUBSET (1..Len(Deck)) : Cardinality(X) = 2 },
        B \in { X \in SUBSET (1..Len(Deck)) : Cardinality(X) \in {0, 3, 4} } }

\* the requests whose board is disjoint from the hole cards
DealtRequests ==
    { r \in DrawRequests :
        SeqToSet(r.hole_cards) \cap SeqToSet(r.community_cards) = {} }

InitDraw ==
    /\ Constructed
    /\ request \in DealtRequests
    /\ action_is_str = FALSE

\* draws and draw_equity as get_action computes them
Evaluate ==
    /\ request.fn = "identify_draws"
    /\ result = NoCall
    /\ LET draws == identify_draws(request.hole_cards, request.community_cards)
       IN  result' = [raised |-> FALSE, value |-> draws,
                      draw_equity |-> calculate_total_equity(draws)]
    /\ last_call' = <<request.fn>>
    /\ UNCHANGED <<engine, current_street, effective_stack, request, action_is_str, disk>>

NextDraw == Evaluate

SpecDraw == InitDraw /\ [][NextDraw]_vars

---------------------------------------------------------------------------
(* Properties of the opponent model, checked under Spec. *)

\* the observations of the session, summed over the tracked records
total_hands == TotalHands(opponent_data, DOMAIN opponent_data)

\* the latest call was an observe call
Observed == last_call[1] = "observe"

\* the latest call was an observe call for a player with a record
ObservedTracked == Observed /\ last_call[2] \in DOMAIN opponent_data

\* C1: within a session, once the observed actions of the tracked players
\* total 20 the activation flag is true and the summary is not "observing",
\* and an observe call made while the flag is true leaves it true and the
\* summary away from "observing".
C1_ActivationSticky ==
    /\ [](total_hands >= 20 =>
            adaptation_active /\ get_opponent_summary # "observing")
    /\ [][(adaptation_active /\ last_call'[1] = "observe") =>
            (adaptation_active' /\ get_opponent_summary' # "observing")]_vars

\* C1 witness: an observe call made after the session was activated
C1_Witness ==
    /\ Observed
    /\ adaptation_active
    /\ total_hands > 20

\* C2: once adaptation is active the current configuration is the function
\* of the baseline and of the latest average tendencies that one recompute
\* from the baseline yields, in every field.
C2_ConfigFromSnapshot ==
    adaptation_active =>
        current_config = update_strategy(base_config, opponent_data)

\* C3: right after register every tracked record is the fresh record (all
\* counters 0), the activation flag is false, the observed total is 0 and
\* the current configuration is the baseline, whatever the state before;
\* the state after register therefore depends on the players alone.
C3_RegisterResets ==
    last_call[1] = "register" =>
        /\ \A n \in DOMAIN opponent_data : opponent_data[n] = NewRecord
        /\ ~adaptation_active
        /\ hands_observed = 0
        /\ current_config = base_config

\* C3 witness: register called on an activated session whose configuration
\* had left the baseline, with a player to track
C3_Witness ==
    /\ last_call[1] = "register"
    /\ last_call[2]
    /\ last_call[3]
    /\ DOMAIN opponent_data # {}

\* C4: an observe call for a name without a record changes no record, not
\* the observed total, not the activation flag and not the configuration.
C4_UntrackedNoOp ==
    [][(last_call'[1] = "observe" /\ last_call'[2] \notin DOMAIN opponent_data)
        => UNCHANGED engine]_vars

\* C4 witness: an observe call for an untracked name in a session that has
\* records and observations
C4_Witness ==
    /\ Observed
    /\ last_call[2] \notin DOMAIN opponent_data
    /\ DOMAIN opponent_data # {}
    /\ hands_observed > 0

\* no trigger of _update_strategy fires on the current records
NoTrigger ==
    /\ ~avg_fold_high(opponent_data)
    /\ ~avg_bluff_high(opponent_data)
    /\ ~avg_call_high(opponent_data)

\* C10: when adaptation is active and none of the three triggers fires on
\* the latest tendencies, the current configuration is the baseline in
\* every field.
C10_NoTriggerBaseline ==
    (adaptation_active /\ NoTrigger) => current_config = base_config

\* C10 witness: a recompute after the activating one in which no trigger
\* fires
C10_Witness ==
    /\ ObservedTracked
    /\ adaptation_active
    /\ hands_observed > base_config.adaptation_start
    /\ NoTrigger

---------------------------------------------------------------------------
(* Properties of the decision procedure, checked under SpecDecide. *)

\* get_action has answered the request
Decided == last_call[1] = "get_action"

\* the push-or-fold flag of the guidance computed for the request
PushFoldFlag ==
    LET g == spr_guidance_of(request)
    IN  "push_fold" \in DOMAIN g /\ g.push_fold

\* C5: the action get_action returns is a member of the legal-action set
\* of the request, in either phase and in every branch.
C5_ActionIsLegal ==
    Decided => result.action \in request.available_actions

\* C6: get_action does not return fold when check is in the legal-action
\* set of the request.
C6_NoFoldWhenCheckFree ==
    (Decided /\ result.action = "FOLD") =>
        "CHECK" \notin request.available_actions

\* C7: when the guidance computed for the request has the push-or-fold
\* flag set, get_action returns all-in or fold.
C7_PushOrFoldOnly ==
    (Decided /\ PushFoldFlag) => result.action \in {"ALL_IN", "FOLD"}

\* C8: a result of get_action whose action is fold, check or call carries
\* amount 0.
C8_PassiveAmountZero ==
    (Decided /\ result.action \in {"FOLD", "CHECK", "CALL"}) =>
        result.amount = 0

---------------------------------------------------------------------------
(* Properties of the calculators, checked under SpecCalc. *)

\* a calculator has answered the request
Calculated == result # NoCall

\* the sizing of the request with the pot replaced by 100
SizedWithDefaultPot ==
    calculate_amount(request.action, [chips |-> request.chips], 0,
                     request.current_bet, request.hand_strength,
                     request.draw_equity, current_config, 100)

\* C9: for every pot (zero and negative included), call cost and stack no
\* calculator call ends in a division by zero: the odds functions return a
\* value, calculate_spr returns infinity when the pot is not positive, and
\* the sizing of a non-positive pot is the sizing of a pot of 100.
C9_NoDivisionFault ==
    Calculated =>
        /\ ~result.raised
        /\ (request.fn = "calculate_spr" /\ request.total_pot <= 0)
              => result.value = Infinity
        /\ (request.fn = "calculate_amount" /\ request.total_pot <= 0)
              => result.value = SizedWithDefaultPot

\* C11: get_strategy_by_spr puts every spr into exactly one of four
\* regimes with closed upper bounds: commit threshold 0.75 for spr > 15,
\* 0.65 for 7 < spr <= 15, 0.55 for 3 < spr <= 7, 0.45 for spr <= 3; the
\* push-or-fold flag is set exactly when spr <= 3; speculative play is yes
\* for spr > 15, yes iff draw equity > 0.25 for 7 < spr <= 15, no otherwise.
C11_RegimeTable ==
    (Calculated /\ request.fn = "get_strategy_by_spr") =>
        LET n == request.spr[1]
            d == request.spr[2]
            g == result.value
        IN  /\ g.commit_threshold =
                  (IF n > 15 * d THEN 75
                   ELSE IF n > 7 * d THEN 65
                   ELSE IF n > 3 * d THEN 55
                   ELSE 45)
            /\ ("push_fold" \in DOMAIN g /\ g.push_fold) <=> (n <= 3 * d)
            /\ g.play_speculative <=>
                  \/ n > 15 * d
                  \/ (n > 7 * d /\ request.draw_equity > 25)

\* C11 witness: the guidance computed for spr = 15.0 with a draw equity
\* above 0.25
C11_Witness ==
    /\ Calculated
    /\ request.fn = "get_strategy_by_spr"
    /\ request.spr = <<15, 1>>
    /\ request.draw_equity > 25
    /\ result.value.commit_threshold = 65

\* C14: for the same positive base threshold the position-adjusted entry
\* threshold of BTN is strictly lower than that of EP, by
\* get_adjusted_threshold and by the multipliers of _preflop_decision.
C14_ButtonLooser ==
    (Calculated /\ request.fn = "get_adjusted_threshold"
                /\ request.position = "BTN") =>
        /\ result.value < get_adjusted_threshold(request.base_threshold, "EP")
        /\ TIER3_THRESHOLD * preflop_multiplier("BTN")
              < TIER3_THRESHOLD * preflop_multiplier("EP")

---------------------------------------------------------------------------
(* Properties of the draw evaluator, checked under SpecDraw. *)

\* the findings of the evaluated request
Findings == result.value

\* the equities of the findings
FindingEquities == { Findings[k].equity : k \in DOMAIN Findings }

\* C12: the total equity of the findings identify_draws returns is >= 0,
\* is 0 when there is no finding and otherwise is the largest equity of a
\* single finding; with a combo draw among them it is the combo's equity.
C12_TotalIsMaximum ==
    Calculated =>
        /\ result.draw_equity >= 0
        /\ DOMAIN Findings = {} => result.draw_equity = 0
        /\ DOMAIN Findings # {} =>
              /\ result.draw_equity \in FindingEquities
              /\ \A e \in FindingEquities : e <= result.draw_equity
        /\ "combo_draw" \in DOMAIN Findings =>
              result.draw_equity = Findings["combo_draw"].equity

\* C12 witness: a combo draw evaluated together with its flush draw,
\* straight draw and overcards
C12_Witness ==
    /\ Calculated
    /\ {"combo_draw", "flush_draw", "oesd", "overcards"} \subseteq DOMAIN Findings
    /\ result.draw_equity = 54

\* a suit held exactly four times by hole cards and board together, with
\* a hole card of it
HoldsFlushDraw ==
    \E s \in {"s", "h", "d", "c"} :
        /\ Cardinality({ i \in 1..Len(request.hole_cards) :
                           request.hole_cards[i].suit = s })
           + Cardinality({ i \in 1..Len(request.community_cards) :
                             request.community_cards[i].suit = s }) = 4
        /\ \E i \in 1..Len(request.hole_cards) : request.hole_cards[i].suit = s

\* C13: identify_draws reports a combo draw exactly when a flush draw
\* coexists with a straight draw, with outs 15 and equity 0.54 when the
\* open-ended draw is present and outs 12 and equity 0.45 when only the
\* gutshot is; the flush-draw, open-ended and gutshot findings stay in the
\* result; without community cards the result is empty.
C13_ComboDraw ==
    Calculated =>
        /\ request.community_cards = << >> => DOMAIN Findings = {}
        /\ request.community_cards # << >> =>
              ("flush_draw" \in DOMAIN Findings <=> HoldsFlushDraw)
        /\ "combo_draw" \in DOMAIN Findings <=>
              /\ request.community_cards # << >>
              /\ HoldsFlushDraw
              /\ {"oesd", "gutshot"} \cap DOMAIN Findings # {}
        /\ "combo_draw" \in DOMAIN Findings =>
              Findings["combo_draw"] =
                  IF "oesd" \in DOMAIN Findings
                  THEN [outs |-> 15, equity |-> 54]
                  ELSE [outs |-> 12, equity |-> 45]

\* C13 witness: a flush draw with both an open-ended draw and a gutshot
C13_Witness ==
    /\ Calculated
    /\ {"flush_draw", "oesd", "gutshot"} \subseteq DOMAIN Findings
    /\ Findings["combo_draw"] = [outs |-> 15, equity |-> 54]

\* a sizing request for a bet with no outstanding bet has been answered
BetSized ==
    /\ Calculated
    /\ request.fn = "calculate_amount"
    /\ request.action = "BET"
    /\ request.current_bet = 0

\* the pot the sizing works with: a non-positive pot counts as 100
SizingPot == IF request.total_pot <= 0 THEN 100 ELSE request.total_pot

\* the pot fraction of the first matching band, in hundredths; the
\* combined strength hand_strength + draw_equity * 0.5 is compared doubled
BandFraction ==
    LET strength == 2 * request.hand_strength + request.draw_equity
    IN  IF strength > 160 THEN 75
        ELSE IF strength > 120 THEN 66
        ELSE IF request.draw_equity > 25 THEN 60
        ELSE IF strength > 90 THEN 33
        ELSE 25

\* C15 as stated: the amount of a bet with no outstanding bet is
\* max(40, pot * fraction) with the fraction of the first matching band and
\* a non-positive pot replaced by 100 (both sides in hundredths of a chip),
\* and is never below 40.
C15_BetIsPotFraction ==
    BetSized =>
        /\ 100 * result.value = Max(4000, SizingPot * BandFraction)
        /\ result.value >= 40

\* C15 amended: the amount is max(40, pot * fraction cut down to a whole
\* number of chips), and is never below 40.
C15_BetIsWholePotFraction ==
    BetSized =>
        /\ result.value = Max(40, (SizingPot * BandFraction) \div 100)
        /\ result.value >= 40

\* C15 witness: pot 200 and combined strength 0.85 sized to 150
C15_Witness ==
    /\ BetSized
    /\ request.total_pot = 200
    /\ request.hand_strength = 85
    /\ request.draw_equity = 0
    /\ result.value = 150

---------------------------------------------------------------------------
(* Properties of the decision steps, checked under SpecDecide. *)

PreCommunity == request.state = "PRE_FLOP"

\* the names of the legal actions of the request
LegalNames == { ActionName(a) : a \in request.available_actions }

\* the draw equity of the request, in hundredths
RequestDrawEquity == draw_equity_of(request)

\* what the implied-odds calculator says for the request
RequestImpliedOdds ==
    calculate_implied_odds(request.amount_to_call, request.total_pot,
                           effective_stack_of(request.player, request.players),
                           street_map(request.state), RequestDrawEquity)

\* the request enters the post-community draw step
InDrawStep == ~PreCommunity /\ ~PushFoldFlag /\ RequestDrawEquity > 15

\* the call-on-odds condition and the semi-bluff condition of the draw step
CallOnOdds == RequestImpliedOdds.should_call /\ "call" \in LegalNames
SemiBluff ==
    /\ RequestDrawEquity > 30
    /\ request.hand_strength < 50
    /\ "raise" \in LegalNames

\* the request reaches the post-community weighted step
InWeightedStep ==
    /\ ~PreCommunity
    /\ ~PushFoldFlag
    /\ ~(InDrawStep /\ (CallOnOdds \/ SemiBluff))

\* the weight table of the request's band
BandWeights ==
    calculate_postflop_weights(request.hand_strength, RequestDrawEquity,
                               current_config, spr_guidance_of(request))

\* the legal actions with a strictly positive weight in the band's table
Supported == { k \in DOMAIN BandWeights : k \in LegalNames /\ BandWeights[k] > 0 }

C16_EmptySupport ==
    /\ Decided
    /\ InWeightedStep
    /\ request.available_actions = {"FOLD", "CHECK"}
    /\ Supported = {}
    /\ result.action = "FOLD"

\* C17 as stated: a pre-community request with hand strength >= 0.80 is
\* answered with raise max(40, call cost + 30) when raise is legal and with
\* bet 40 otherwise.
C17_PremiumRaiseElseBet ==
    (Decided /\ PreCommunity /\ request.hand_strength >= 80) =>
        IF "raise" \in LegalNames
        THEN result = Return("RAISE", Max(40, request.amount_to_call + 30))
        ELSE result = Return("BET", 40)

\* C19: in a post-community decision under push-or-fold the result is
\* all-in exactly when hand_strength * 0.7 + draw_equity * 0.3 reaches the
\* commit threshold 0.45 (compared in thousandths), and fold otherwise.
C19_PushFoldByBlendedEquity ==
    (Decided /\ ~PreCommunity /\ PushFoldFlag) =>
        IF 7 * request.hand_strength + 3 * RequestDrawEquity >= 450
        THEN result.action = "ALL_IN"
        ELSE result.action = "FOLD"

\* C20: in the draw step the call on odds comes first: when implied odds
\* say call and call is legal the result is call with amount 0, also when
\* the semi-bluff condition holds; the semi-bluff raise of
\* max(40, current_bet + 20) is returned when the semi-bluff condition
\* holds and the call did not fire.
C20_CallBeforeSemiBluff ==
    (Decided /\ InDrawStep) =>
        /\ CallOnOdds => result = Return("CALL", 0)
        /\ (SemiBluff /\ ~CallOnOdds) =>
              result = Return("RAISE", Max(40, request.current_bet + 20))

\* C20 witness: both conditions hold and the call is returned
C20_Witness ==
    /\ Decided
    /\ InDrawStep
    /\ CallOnOdds
    /\ SemiBluff
    /\ result = Return("CALL", 0)

---------------------------------------------------------------------------
(* Properties of the derived scores, checked under SpecLog. *)

\* the fraction x lies in the closed interval [0, 1]
InUnitInterval(x) == x[2] > 0 /\ 0 <= x[1] /\ x[1] <= x[2]

\* C18: in every reachable state each tracked opponent's fold tendency,
\* bluff tendency and calling tendency lies in [0, 1].
C18_TendenciesInUnitInterval ==
    \A name \in DOMAIN opponent_data :
        /\ InUnitInterval(opponent_data[name].fold_tendency)
        /\ InUnitInterval(opponent_data[name].bluff_tendency)
        /\ InUnitInterval(opponent_data[name].calling_tendency)

\* C18 witness: a recalculated record whose fold rate doubled and whose
\* bluff rate tripled both exceed 1
C18_Witness ==
    \E name \in DOMAIN opponent_data :
        LET data == opponent_data[name]
        IN  /\ data.hands_observed = 5
            /\ 2 * data.folds > data.hands_observed
            /\ 3 * data.bluffs_detected > data.raises
            /\ data.raises > 0
            /\ data.fold_tendency = <<1, 1>>
            /\ data.bluff_tendency = <<1, 1>>

---------------------------------------------------------------------------
(* Properties of the raise sizing, checked under SpecCalc. *)

\* the sizing call faces an outstanding bet
RaiseSized ==
    /\ Calculated
    /\ request.fn = "calculate_amount"
    /\ request.action = "RAISE"
    /\ request.current_bet > 0

\* the combined strength of the sizing call is in the weakest band
WeakestBand ==
    /\ 2 * request.hand_strength + request.draw_equity <= 90
    /\ request.draw_equity <= 25

\* C21 as stated: facing an outstanding bet the raise increment is
\* max(40, target - current_bet), the target being pot * fraction with the
\* fraction table of the opening bet (0.75, 0.66, 0.60, 0.33) and
\* current_bet + 40 in the weakest band (compared in hundredths of a chip).
C21_RaiseByBetTable ==
    RaiseSized =>
        100 * result.value =
            Max(4000, (IF WeakestBand
                       THEN 100 * (request.current_bet + 40)
                       ELSE SizingPot * BandFraction)
                      - 100 * request.current_bet)

\* the pot fraction of a raise in the first matching band, in hundredths
RaiseBandFraction ==
    LET strength == 2 * request.hand_strength + request.draw_equity
    IN  IF strength > 160 THEN 75
        ELSE IF strength > 120 THEN 66
        ELSE IF request.draw_equity > 25 THEN 60
        ELSE 50

\* C21 amended: the target is pot * fraction cut down to a whole number of
\* chips with the fractions 0.75, 0.66, 0.60 and 0.50 by band, and
\* current_bet + 40 in the weakest band; the increment is
\* max(40, target - current_bet).
C21_RaiseToWholePotFraction ==
    RaiseSized =>
        result.value =
            Max(40, (IF WeakestBand
                     THEN request.current_bet + 40
                     ELSE (SizingPot * RaiseBandFraction) \div 100)
                    - request.current_bet)

\* C21 witness: pot 200 and combined strength 0.50 against a bet of 40
\* raised by 60, half the pot less the bet
C21_Witness ==
    /\ RaiseSized
    /\ request.total_pot = 200
    /\ request.hand_strength = 50
    /\ request.draw_equity = 0
    /\ request.current_bet = 40
    /\ result.value = 60

\* C21 second case: pot 200 and combined strength 0.85 against a bet of 40
\* raised by 110
C21_StrongRaise ==
    /\ RaiseSized
    /\ request.total_pot = 200
    /\ request.hand_strength = 85
    /\ request.current_bet = 40
    /\ result.value = 110

---------------------------------------------------------------------------
(* Properties of the recomputation of the scores, checked under SpecTend. *)

Recalculated == result # NoCall /\ request.fn = "_calculate_tendencies"

\* the fraction x equals min(1, n / d), for n >= 0 and d > 0
IsCappedRatio(x, n, d) ==
    IF n >= d THEN x[1] = x[2] ELSE x[1] * d = n * x[2]

\* C22: a recomputation with at least 3 hands observed sets the fold
\* tendency to min(1, 2 * folds / hands), the bluff tendency to
\* min(1, 3 * bluffs / raises) when raises > 0 and the calling tendency to
\* min(1, calls / (hands - folds)) when hands > folds, and leaves a score
\* unchanged otherwise; with fewer than 3 hands all three are unchanged.
C22_TendencyFormulas ==
    Recalculated =>
        LET old == request.data
            new == result.value
        IN  IF old.hands_observed < 3
            THEN new = old
            ELSE /\ IsCappedRatio(new.fold_tendency, 2 * old.folds, old.hands_observed)
                 /\ IF old.raises > 0
                    THEN IsCappedRatio(new.bluff_tendency, 3 * old.bluffs_detected,
                                       old.raises)
                    ELSE new.bluff_tendency = old.bluff_tendency
                 /\ IF old.hands_observed > old.folds
                    THEN IsCappedRatio(new.calling_tendency, old.calls,
                                       old.hands_observed - old.folds)
                    ELSE new.calling_tendency = old.calling_tendency

\* C22 witness: 4 hands, all folded and no raise: the fold tendency is
\* capped at 1 and the other two scores keep their value of 2/3
C22_Witness ==
    /\ Recalculated
    /\ request.data.hands_observed = 4
    /\ request.data.folds = 4
    /\ request.data.bluff_tendency = <<2, 3>>
    /\ result.value.fold_tendency = <<1, 1>>
    /\ result.value.bluff_tendency = <<2, 3>>
    /\ result.value.calling_tendency = <<2, 3>>

\* C22 second case: a record with 2 hands keeps its scores
C22_TooFewHands ==
    /\ Recalculated
    /\ request.data.hands_observed = 2
    /\ request.data.folds = 2
    /\ result.value.fold_tendency = <<1, 2>>

---------------------------------------------------------------------------
(* Properties of the recompute schedule, checked under Spec. *)

\* the three scores of a record
Scores(data) == <<data.fold_tendency, data.bluff_tendency, data.calling_tendency>>

\* C23: while the activation flag is false the current configuration is
\* the baseline; and an observe call that leaves the flag false changes the
\* scores of no record but the named opponent's, and those only when it is
\* that opponent's 5th, 10th, 15th, ... observed action.
C23_RecomputeOnlyWhenActive ==
    /\ [](~adaptation_active => current_config = base_config)
    /\ [][(last_call'[1] = "observe" /\ ~adaptation_active') =>
            \A name \in DOMAIN opponent_data :
                Scores(opponent_data'[name]) # Scores(opponent_data[name]) =>
                    /\ name = last_call'[2]
                    /\ opponent_data'[name].hands_observed % 5 = 0]_vars

\* C23 witness: the 10th observed action of an opponent before activation,
\* its scores recomputed away from the fold-heavy trigger's baseline while
\* the configuration is still the baseline
C23_Witness ==
    /\ ObservedTracked
    /\ ~adaptation_active
    /\ opponent_data[last_call[2]].hands_observed = 10
    /\ opponent_data[last_call[2]].fold_tendency = <<1, 1>>
    /\ avg_fold_high(opponent_data)
    /\ current_config = base_config

---------------------------------------------------------------------------
(* Properties of the adjustments of _update_strategy, checked under Spec. *)

\* C24: after a strategy recompute in which the average fold tendency
\* exceeds 0.6 the current configuration has bluff frequency
\* min(0.5, baseline + 0.15), post-community bet frequency
\* min(0.7, baseline + 0.15) and aggression factor baseline + 0.5, whether
\* or not the other two triggers fire.
C24_FoldTriggerStands ==
    (adaptation_active /\ avg_fold_high(opponent_data)) =>
        /\ current_config.bluff_freq = Min(50, base_config.bluff_freq + 15)
        /\ current_config.bluff_freq > base_config.bluff_freq
        /\ current_config.bet_postflop = Min(70, base_config.bet_postflop + 15)
        /\ current_config.af_factor = base_config.af_factor + 5

\* C25: after a strategy recompute in which the average bluff tendency
\* exceeds 0.4 each bound of the current entry-frequency range is the
\* baseline bound less 5, floored at 15 (lower) and 20 (upper), and neither
\* bound is larger than the corresponding baseline bound.
C25_EntryRangeTightened ==
    (adaptation_active /\ avg_bluff_high(opponent_data)) =>
        /\ current_config.vpip_range[1] = Max(15, base_config.vpip_range[1] - 5)
        /\ current_config.vpip_range[2] = Max(20, base_config.vpip_range[2] - 5)
        /\ current_config.vpip_range[1] <= base_config.vpip_range[1]
        /\ current_config.vpip_range[2] <= base_config.vpip_range[2]

---------------------------------------------------------------------------
(* Properties of SaveManager, checked under SpecSave. *)

\* the latest call was fn on some slot
Called(fn) == last_call[1] = fn

\* C26: load_game(slot) returns the data of the most recent successful
\* save_game on that slot, save_time included, and None when the slot holds
\* no save; delete_save(slot) returns True exactly when a save existed and
\* leaves has_save(slot) false; a call on one slot changes no other slot.
C26_SlotsHoldLatestSave ==
    /\ [](Called("load_game") =>
            IF save_log[last_call[2]] = NoData
            THEN result.returned = "None"
            ELSE result = [returned |-> "dict", data |-> save_log[last_call[2]]])
    /\ [][last_call'[1] = "delete_save" =>
            /\ result'.returned = BoolName(has_save(saves[last_call'[2]]))
            /\ ~has_save(saves'[last_call'[2]])]_vars
    /\ [][\A slot \in Slots :
            (last_call'[1] \in {"save_game", "load_game", "has_save", "delete_save"}
             /\ last_call'[2] # slot) => saves'[slot] = saves[slot]]_vars

---------------------------------------------------------------------------
(* Properties of the activation, checked under SpecDuo. *)

\* C27: the activation flag is true exactly when the hands observed of all
\* tracked opponents since the last register sum to at least 20.
C27_ActiveIffTwentyObserved ==
    adaptation_active <=> total_hands >= 20

\* C27 witness: the 20th recorded action, spread over two opponents
C27_Witness ==
    /\ ObservedTracked
    /\ adaptation_active
    /\ total_hands = 20
    /\ \A name \in DOMAIN opponent_data :
          /\ opponent_data[name].hands_observed > 0
          /\ opponent_data[name].hands_observed < 20

---------------------------------------------------------------------------
(* Properties of the counters, checked under SpecLog. *)

\* C28: for every tracked opponent folds + calls + raises <= hands
\* observed, bluffs detected <= raises, folds to a continuation bet <= folds
\* and <= continuation-bet opportunities; and the engine's observed total
\* is the sum of the records' hands observed.
C28_CountersConsistent ==
    /\ \A name \in DOMAIN opponent_data :
          LET data == opponent_data[name]
          IN  /\ data.folds + data.calls + data.raises <= data.hands_observed
              /\ data.bluffs_detected <= data.raises
              /\ data.fold_to_cbet <= data.folds
              /\ data.fold_to_cbet <= data.cbet_opportunities
    /\ hands_observed = total_hands

\* C28 witness: two opponents observed; one of them checked (counted as a
\* hand only), raised once with the bluff flag, folded once to a
\* continuation bet and folded once without facing one
C28_Witness ==
    /\ Cardinality(DOMAIN opponent_data) = 2
    /\ \A name \in DOMAIN opponent_data : opponent_data[name].hands_observed > 0
    /\ \E name \in DOMAIN opponent_data :
          LET data == opponent_data[name]
          IN  /\ data.folds + data.calls + data.raises < data.hands_observed
              /\ data.bluffs_detected = 1
              /\ data.raises = 1
              /\ data.fold_to_cbet = 1
              /\ data.folds = 2

---------------------------------------------------------------------------
(* Dependence of the decision on the configuration, checked under          *)
(* SpecDecide by answering the request again under other configurations.   *)

\* configurations that differ from cfg in fields other than the bluff
\* frequency, with the values _update_strategy writes
OtherFieldVariants(cfg) ==
    { [cfg EXCEPT !.vpip_range = <<15, 20>>],
      [cfg EXCEPT !.af_factor = 30],
      [cfg EXCEPT !.call_preflop = 30],
      [cfg EXCEPT !.fold_to_raise = 50],
      [cfg EXCEPT !.bet_postflop = 60],
      [cfg EXCEPT !.vpip_range = <<15, 20>>, !.af_factor = 28,
                  !.call_preflop = 30, !.fold_to_raise = 50,
                  !.bet_postflop = 55] }

\* configurations that differ from cfg in the bluff frequency
BluffVariants(cfg) ==
    { [cfg EXCEPT !.bluff_freq = 30], [cfg EXCEPT !.bluff_freq = 10] }

\* the answers to the request under cfg, one per random draw
Answers(cfg) == [u \in RandomDraws |-> get_action(request, cfg, u)]

\* C29: a request answered under two configurations that differ only in
\* fields other than the bluff frequency gets, for the same random draw,
\* the same action and amount; a pre-community request gets the same
\* answer under every configuration.
C29_ConfigOnlyThroughBluffFreq ==
    Decided =>
        /\ \E u \in RandomDraws : result = Answers(current_config)[u]
        /\ \A cfg \in OtherFieldVariants(current_config) :
              Answers(cfg) = Answers(current_config)
        /\ PreCommunity =>
              \A cfg \in BluffVariants(current_config) :
                  Answers(cfg) = Answers(current_config)

\* C29 witness: a post-community bet or raise from the weighted step, sized
\* by _calculate_amount, which is handed the configuration
C29_Witness ==
    /\ Decided
    /\ InWeightedStep
    /\ result.action \in {"BET", "RAISE"}
    /\ result.amount > 40

\* the bluff frequency does reach the answer: a weak hand whose answer to
\* some random draw changes with it
C29_BluffFreqMatters ==
    /\ Decided
    /\ InWeightedStep
    /\ \E cfg \in BluffVariants(current_config) :
          Answers(cfg) # Answers(current_config)

---------------------------------------------------------------------------
(* All-in results of the post-community decision, checked under SpecDecide. *)

\* C30: the weight of all_in is 0 in the table of every post-community
\* request, and a post-community decision that returns all-in was made
\* with the push-or-fold flag set and carries the player's whole stack.
C30_AllInOnlyByPushFold ==
    (Decided /\ ~PreCommunity) =>
        /\ BandWeights["all_in"] = 0
        /\ result.action = "ALL_IN" =>
              /\ PushFoldFlag
              /\ result.amount = request.player.chips

\* C30 witness: an all-in of the whole stack of 50 under push-or-fold
C30_Witness ==
    /\ Decided
    /\ ~PreCommunity
    /\ PushFoldFlag
    /\ result = Return("ALL_IN", 50)
    /\ request.player.chips = 50

\* C30 second case: all-in is legal and the weighted step answers from the
\* top band without choosing it
C30_TopBandNoAllIn ==
    /\ Decided
    /\ InWeightedStep
    /\ "all_in" \in LegalNames
    /\ 7 * request.hand_strength + 3 * RequestDrawEquity > 800
    /\ result.action = "RAISE"

=============================================================================
